---- MODULE Spec2Model ----
(***************************************************************************)
(* A model of check-commits-email (src/src/main.rs): the run of one       *)
(* process from reading the two files to the renderer, with the rule      *)
(* compiler, Rule::is_match and find_violations translated from the code. *)
(*                                                                         *)
(* A string is a sequence of one-character strings; a file is the         *)
(* sequence of its lines (what str::lines yields).                        *)
(***************************************************************************)
EXTENDS Naturals, Sequences, FiniteSets

(***************************************************************************)
(* Bounds of the model.                                                    *)
(***************************************************************************)
\* the largest number of lines of a rules file
MaxRuleLines == 2
\* the largest number of lines of an emails file
MaxEmailLines == 3
\* the largest number of MX records in one answer of the resolver
MaxExchanges == 2

(***************************************************************************)
(* Strings.                                                                *)
(***************************************************************************)
\* the byte of a character: str's Ord compares strings bytewise
Byte(c) ==
  CASE c = " " -> 32 [] c = "#" -> 35 [] c = "(" -> 40 [] c = "*" -> 42
    [] c = "," -> 44 [] c = "-" -> 45 [] c = "." -> 46 [] c = "@" -> 64
    [] c = "A" -> 65 [] c = "C" -> 67 [] c = "D" -> 68 [] c = "E" -> 69
    [] c = "M" -> 77 [] c = "O" -> 79 [] c = "R" -> 82 [] c = "X" -> 88
    [] c = "\\" -> 92
    [] c = "a" -> 97 [] c = "c" -> 99 [] c = "d" -> 100 [] c = "e" -> 101
    [] c = "m" -> 109 [] c = "x" -> 120

\* simple case folding, what (?i) compares under
Fold(c) ==
  CASE c = "A" -> "a" [] c = "C" -> "c" [] c = "D" -> "d" [] c = "E" -> "e"
    [] c = "M" -> "m" [] c = "O" -> "o" [] c = "R" -> "r" [] c = "X" -> "x"
    [] OTHER -> c

IsWhitespace(c) == c = " "

\* str::starts_with
StartsWith(s, p) == Len(s) >= Len(p) /\ SubSeq(s, 1, Len(p)) = p

\* str::ends_with
EndsWith(s, p) == Len(s) >= Len(p) /\ SubSeq(s, Len(s) - Len(p) + 1, Len(s)) = p

RECURSIVE TrimStart(_)
TrimStart(s) ==
  IF s # <<>> /\ IsWhitespace(Head(s)) THEN TrimStart(Tail(s)) ELSE s

RECURSIVE TrimEnd(_)
TrimEnd(s) ==
  IF s # <<>> /\ IsWhitespace(s[Len(s)]) THEN TrimEnd(SubSeq(s, 1, Len(s) - 1)) ELSE s

\* str::trim
Trim(s) == TrimEnd(TrimStart(s))

\* str::replace of one character by a string
RECURSIVE Replace(_, _, _)
Replace(s, from, to) ==
  IF s = <<>> THEN <<>>
  ELSE (IF Head(s) = from THEN to ELSE <<Head(s)>>) \o Replace(Tail(s), from, to)

\* str::split on one character: the fields, always at least one
RECURSIVE Split(_, _)
Split(s, sep) ==
  IF \A i \in 1..Len(s) : s[i] # sep THEN <<s>>
  ELSE LET i == CHOOSE k \in 1..Len(s) :
                  s[k] = sep /\ \A j \in 1..(k - 1) : s[j] # sep
       IN <<SubSeq(s, 1, i - 1)>> \o Split(SubSeq(s, i + 1, Len(s)), sep)

\* Iterator::last and DoubleEndedIterator::next_back of a Split
LastField(fields) ==
  IF Len(fields) = 0 THEN [some |-> FALSE]
  ELSE [some |-> TRUE, v |-> fields[Len(fields)]]

\* a < b in str's ordering: bytewise lexicographic
RECURSIVE StrLess(_, _)
StrLess(a, b) ==
  IF b = <<>> THEN FALSE
  ELSE IF a = <<>> THEN TRUE
  ELSE IF Head(a) # Head(b) THEN Byte(Head(a)) < Byte(Head(b))
  ELSE StrLess(Tail(a), Tail(b))

ToSet(seq) == {seq[i] : i \in 1..Len(seq)}

(***************************************************************************)
(* Regex: the part of the regex crate the compiled patterns use.  A        *)
(* parsed pattern is a sequence of tokens, a literal character or `.*`.    *)
(***************************************************************************)
\* Regex::new on "(?i)^" followed by `p`: the tokens, or Err.  `\.` is a
\* literal dot, `.*` any sequence, an unclosed `(` a syntax error, a dot
\* not followed by `*` any one character.
RECURSIVE RegexParse(_)
RegexParse(p) ==
  IF p = <<>> THEN [ok |-> TRUE, toks |-> <<>>]
  ELSE
    LET tok ==
          IF Head(p) = "\\" /\ Len(p) >= 2 THEN [n |-> 2, t |-> [k |-> "lit", c |-> p[2]]]
          ELSE IF Head(p) = "." /\ Len(p) >= 2 /\ p[2] = "*" THEN [n |-> 2, t |-> [k |-> "anystar"]]
          ELSE IF Head(p) = "." THEN [n |-> 1, t |-> [k |-> "any"]]
          ELSE IF Head(p) \in {"(", "*", "\\"} THEN [n |-> 0]
          ELSE [n |-> 1, t |-> [k |-> "lit", c |-> Head(p)]]
    IN IF tok.n = 0 THEN [ok |-> FALSE]
       ELSE LET rest == RegexParse(SubSeq(p, tok.n + 1, Len(p)))
            IN IF rest.ok THEN [ok |-> TRUE, toks |-> <<tok.t>> \o rest.toks]
               ELSE [ok |-> FALSE]

\* whether tokens i.. match at position j of s; the pattern has no `$`, so
\* the match may end anywhere
RECURSIVE MatchFrom(_, _, _, _)
MatchFrom(toks, i, s, j) ==
  IF i > Len(toks) THEN TRUE
  ELSE IF toks[i].k = "anystar"
    THEN \E n \in j..(Len(s) + 1) : MatchFrom(toks, i + 1, s, n)
  ELSE IF j > Len(s) THEN FALSE
  ELSE IF toks[i].k = "any" THEN MatchFrom(toks, i + 1, s, j + 1)
  ELSE Fold(toks[i].c) = Fold(s[j]) /\ MatchFrom(toks, i + 1, s, j + 1)

\* Regex::is_match of a pattern anchored by `^`
RegexIsMatch(toks, s) == MatchFrom(toks, 1, s, 1)

(***************************************************************************)
(* Rules.                                                                  *)
(***************************************************************************)
\* the literal "MX-RECORD," of compile_rules
MxPrefix == <<"M", "X", "-", "R", "E", "C", "O", "R", "D", ",">>

\* enum Rule: Rule::Regex(regex) or Rule::MxRecord(record)
RuleRegex(toks) == [kind |-> "Regex", regex |-> toks, record |-> <<>>]
RuleMxRecord(host) == [kind |-> "MxRecord", regex |-> <<>>, record |-> host]

\* the pattern compile_rules hands to Regex::new, after "(?i)^"
PatternOf(rule) == Replace(Replace(Trim(rule), ".", <<"\\", ".">>), "*", <<".", "*">>)

\* the closure of compile_rules' filter_map on one rule line: the rule it
\* yields, if any, and whether it prints a diagnostic
CompileRule(rule) ==
  IF StartsWith(rule, MxPrefix)
  THEN LET last == LastField(Split(rule, ","))
       IN IF last.some
          THEN [some |-> TRUE, v |-> RuleMxRecord(last.v), diag |-> FALSE]
          ELSE [some |-> FALSE, v |-> RuleMxRecord(<<>>), diag |-> TRUE]
  ELSE LET re == RegexParse(PatternOf(rule))
       IN IF re.ok
          THEN [some |-> TRUE, v |-> RuleRegex(re.toks), diag |-> FALSE]
          ELSE [some |-> FALSE, v |-> RuleRegex(<<>>), diag |-> TRUE]

\* compile_rules on the rules in the order the HashSet yields them
RECURSIVE CompileRules(_)
CompileRules(rules) ==
  IF rules = <<>> THEN <<>>
  ELSE LET c == CompileRule(Head(rules))
       IN (IF c.some THEN <<c.v>> ELSE <<>>) \o CompileRules(Tail(rules))

\* the rule lines compile_rules prints "Invalid rule" for
RECURSIVE Diagnostics(_)
Diagnostics(rules) ==
  IF rules = <<>> THEN <<>>
  ELSE (IF CompileRule(Head(rules)).diag THEN <<Head(rules)>> ELSE <<>>)
         \o Diagnostics(Tail(rules))

\* the filter of read_rules: the lines it keeps
KeepsRuleLine(line) == ~StartsWith(line, <<"#">>) /\ Trim(line) # <<>>

\* Result<bool>
Ok(b) == [ok |-> TRUE, v |-> b]
Err == [ok |-> FALSE, v |-> FALSE]

\* Result::unwrap_or
UnwrapOr(r, default) == IF r.ok THEN r.v ELSE default

\* a faulty variant: the trailing dot is kept
KeepDot(str) == str

\* the exchange as is_match compares it: to_ascii, less one trailing dot
StripDot(str) ==
  IF EndsWith(str, <<".">>) THEN SubSeq(str, 1, Len(str) - 1) ELSE str

\* the closure of is_match's any() on one MX record
ExchangeIs(exchange, record) == StripDot(exchange) = record

\* what is_match looks up for an email: email.split('@').next_back()
MxHost(email) == LastField(Split(email, "@"))

\* a faulty variant: every dereference makes a resolver
RunsInitAlways(cell) == TRUE

\* LazyLock: whether a dereference runs the initializer
RunsInit(cell) == cell = "uninit"

\* slice::sort_unstable on strings, as an insertion sort
RECURSIVE InsertSorted(_, _)
InsertSorted(x, sorted) ==
  IF sorted = <<>> THEN <<x>>
  ELSE IF StrLess(Head(sorted), x) THEN <<Head(sorted)>> \o InsertSorted(x, Tail(sorted))
  ELSE <<x>> \o sorted

\* a faulty variant: the list is returned as collected
Unsorted(v) == v

RECURSIVE SortUnstable(_)
SortUnstable(v) ==
  IF v = <<>> THEN <<>> ELSE InsertSorted(Head(v), SortUnstable(Tail(v)))

\* the orders in which a HashSet may yield its elements
Orders(S) ==
  {f \in [1..Cardinality(S) -> S] : \A i, j \in 1..Cardinality(S) : f[i] = f[j] => i = j}

(***************************************************************************)
(* The inputs of a run: the two files, the --output argument, and what the *)
(* resolver answers.                                                       *)
(***************************************************************************)
\* rule lines of the runs over whole files:  *@d.c   *.e   MX-RECORD,m
RuleLines ==
  << <<"*", "@", "d", ".", "c">>,
     <<"*", ".", "e">>,
     MxPrefix \o <<"m">> >>

\* email lines of the runs over whole files:  A@D.C   a@d.c   a@m.e
EmailLines ==
  << <<"A", "@", "D", ".", "C">>,
     <<"a", "@", "d", ".", "c">>,
     <<"a", "@", "m", ".", "e">> >>

\* rule lines of the runs over one rule and one email: those above and
\* MX-RECORD,   #x (a comment)   " #x" (an indented comment)   " " (a
\* blank line)   " *@d.c " (a padded rule)   ( (no regular expression)
EdgeRuleLines ==
  RuleLines \o
  << MxPrefix,
     <<"#", "x">>,
     <<" ", "#", "x">>,
     <<" ">>,
     <<" ", "*", "@", "d", ".", "c", " ">>,
     <<"(">> >>

\* email lines of the runs over one rule and one email: those above and
\* a@d.c.e   a@dxc   a@e@m   d.c
EdgeEmailLines ==
  EmailLines \o
  << <<"a", "@", "d", ".", "c", ".", "e">>,
     <<"a", "@", "d", "x", "c">>,
     <<"a", "@", "e", "@", "m">>,
     <<"d", ".", "c">> >>

\* exchange names an MX answer is made of, as to_ascii prints them
Exchanges == { <<"m", ".">>, <<"m">>, <<"M", ".">>, <<"x", ".", "m", ".">> }

\* The files of at most `max` lines over `pool`.  read_rules and read_emails
\* collect the lines into a HashSet, which forgets their order: one file
\* stands for all that hold the same lines with the same repetitions.
FilesOver(pool, max) ==
  UNION { { [i \in 1..n |-> pool[f[i]]] :
              f \in {g \in [1..n -> 1..Len(pool)] :
                       \A i, j \in 1..n : i <= j => g[i] <= g[j]} } :
          n \in 0..max }

Readable(lines) == [readable |-> TRUE, lines |-> lines]
Unreadable == [readable |-> FALSE, lines |-> <<>>]

RulesFiles == {Readable(l) : l \in FilesOver(RuleLines, MaxRuleLines)} \cup {Unreadable}
EmailsFiles == {Readable(l) : l \in FilesOver(EmailLines, MaxEmailLines)} \cup {Unreadable}

OneRuleFiles == {Readable(<<EdgeRuleLines[i]>>) : i \in 1..Len(EdgeRuleLines)} \cup {Unreadable}
OneEmailFiles == {Readable(<<EdgeEmailLines[i]>>) : i \in 1..Len(EdgeEmailLines)} \cup {Unreadable}

\* Result of Resolver::mx_lookup: Err, or the exchanges of the answer
LookupErr == [ok |-> FALSE, exch |-> {}]
LookupOk(exch) == [ok |-> TRUE, exch |-> exch]
LookupResults ==
  {LookupErr} \cup
  {LookupOk(x) : x \in {y \in SUBSET Exchanges : Cardinality(y) <= MaxExchanges}}

(***************************************************************************)
(* The state.                                                              *)
(***************************************************************************)
VARIABLES
  pc,             \* where the process is
  rulesFile,      \* the file at args.rules
  emailsFile,     \* the file at args.emails
  output,         \* args.output
  bad_rules,      \* run: the HashSet read_rules returned
  commit_emails,  \* run: the HashSet read_emails returned
  regex_rules,    \* run: the Vec compile_rules returned
  stderr,         \* the rule lines reported as invalid
  remaining,      \* find_violations: the emails the filter has not yet seen
  cur,            \* find_violations: <<email>> under the filter, or <<>>
  idx,            \* find_violations: the rule any() is at
  kept,           \* find_violations: the emails collected so far
  violations,     \* run: the Vec find_violations returned
  RESOLVER,       \* is_match's static LazyLock: "uninit" or "ready"
  stdout,         \* the lines printed
  exitCode,       \* the exit status: 0 none yet or success
  \* history, for stating the properties
  resolverNews,   \* the number of calls of Resolver::new
  mxCalls,        \* the number of is_match calls on a Rule::MxRecord
  lastCall,       \* the last call of Rule::is_match
  nCalls,         \* the is_match calls for the email under the filter
  matched,        \* the emails some is_match call returned Ok(true) for
  exhausted,      \* the emails every rule was tried on, none Ok(true)
  erred           \* the emails some is_match call returned Err for

vars == <<pc, rulesFile, emailsFile, output, bad_rules, commit_emails, regex_rules,
          stderr, remaining, cur, idx, kept, violations, RESOLVER, stdout, exitCode,
          resolverNews, mxCalls, lastCall, nCalls, matched, exhausted, erred>>

inputs == <<rulesFile, emailsFile, output>>
history == <<resolverNews, mxCalls, lastCall, nCalls, matched, exhausted, erred>>

NoCall ==
  [valid |-> FALSE, email |-> <<>>, rule |-> RuleRegex(<<>>), looked |-> FALSE,
   host |-> <<>>, answer |-> LookupErr, instance |-> 0, result |-> Err]

\* the process at its start, with its files among `rules` and `emails`
InitOver(rules, emails) ==
  /\ pc = "read_rules"
  /\ rulesFile \in rules
  /\ emailsFile \in emails
  /\ output \in {"text", "github"}
  /\ bad_rules = {}
  /\ commit_emails = {}
  /\ regex_rules = <<>>
  /\ stderr = <<>>
  /\ remaining = {}
  /\ cur = <<>>
  /\ idx = 0
  /\ kept = <<>>
  /\ violations = <<>>
  /\ RESOLVER = "uninit"
  /\ stdout = <<>>
  /\ exitCode = 0
  /\ resolverNews = 0
  /\ mxCalls = 0
  /\ lastCall = NoCall
  /\ nCalls = 0
  /\ matched = {}
  /\ exhausted = {}
  /\ erred = {}

Init == InitOver(RulesFiles, EmailsFiles)

InitLine == InitOver(OneRuleFiles, OneEmailFiles)

(***************************************************************************)
(* run, step by step.                                                      *)
(***************************************************************************)
\* run: read_rules(&args.rules)?  An unreadable file makes run, and main,
\* return the error: the process exits with status 1.
ReadRules ==
  /\ pc = "read_rules"
  /\ IF rulesFile.readable
     THEN /\ bad_rules' = {l \in ToSet(rulesFile.lines) : KeepsRuleLine(l)}
          /\ pc' = "read_emails"
          /\ exitCode' = exitCode
     ELSE /\ bad_rules' = bad_rules
          /\ pc' = "io_error"
          /\ exitCode' = 1
  /\ UNCHANGED <<inputs, commit_emails, regex_rules, stderr, remaining, cur, idx, kept,
                 violations, RESOLVER, stdout, history>>

\* run: read_emails(&args.emails)?
ReadEmails ==
  /\ pc = "read_emails"
  /\ IF emailsFile.readable
     THEN /\ commit_emails' = ToSet(emailsFile.lines)
          /\ pc' = "compile"
          /\ exitCode' = exitCode
     ELSE /\ commit_emails' = commit_emails
          /\ pc' = "io_error"
          /\ exitCode' = 1
  /\ UNCHANGED <<inputs, bad_rules, regex_rules, stderr, remaining, cur, idx, kept,
                 violations, RESOLVER, stdout, history>>

\* run: compile_rules(bad_rules), then the call of find_violations
Compile ==
  /\ pc = "compile"
  /\ \E order \in Orders(bad_rules) :
       /\ regex_rules' = CompileRules(order)
       /\ stderr' = Diagnostics(order)
  /\ remaining' = commit_emails
  /\ pc' = "filter"
  /\ UNCHANGED <<inputs, bad_rules, commit_emails, cur, idx, kept, violations, RESOLVER,
                 stdout, exitCode, history>>

\* find_violations: the filter takes the next email of the HashSet; with no
\* rule any() is false at once and the email is dropped
NextEmail ==
  /\ pc = "filter"
  /\ cur = <<>>
  /\ \E e \in remaining :
       /\ remaining' = remaining \ {e}
       /\ IF regex_rules = <<>>
          THEN /\ cur' = <<>>
               /\ idx' = 0
               /\ exhausted' = exhausted \cup {e}
          ELSE /\ cur' = <<e>>
               /\ idx' = 1
               /\ exhausted' = exhausted
  /\ nCalls' = 0
  /\ UNCHANGED <<inputs, bad_rules, commit_emails, regex_rules, stderr, kept, violations,
                 RESOLVER, stdout, exitCode, pc, resolverNews, mxCalls, lastCall, matched,
                 erred>>

\* a faulty variant: a failed is_match counts as a match
AbsorbAsMatch(r) == UnwrapOr(r, TRUE)

\* find_violations: what the closure of any() makes of an is_match result
Absorb(r) == UnwrapOr(r, FALSE)

\* a faulty variant: any() consults the first rule alone
AtFirstRule(i, rules) == i >= 1

\* find_violations: whether any() has come to the end of the rules at rule i
AtLastRule(i, rules) == i = Len(rules)

\* find_violations: any() and filter() after is_match returned call.result
\* for the email under the filter
Conclude(call) ==
  LET e == cur[1]
      gone == Absorb(call.result) \/ AtLastRule(idx, regex_rules)
  IN /\ lastCall' = call
     /\ nCalls' = nCalls + 1
     /\ matched' = IF call.result = Ok(TRUE) THEN matched \cup {e} ELSE matched
     /\ erred' = IF call.result.ok THEN erred ELSE erred \cup {e}
     /\ kept' = IF Absorb(call.result) THEN Append(kept, e) ELSE kept
     /\ cur' = IF gone THEN <<>> ELSE cur
     /\ idx' = IF gone THEN 0 ELSE idx + 1
     /\ exhausted' = IF /\ gone
                        /\ nCalls + 1 = Len(regex_rules)
                        /\ call.result # Ok(TRUE)
                        /\ e \notin matched
                     THEN exhausted \cup {e} ELSE exhausted

\* Rule::is_match on a Rule::Regex
MatchRegex ==
  /\ pc = "filter"
  /\ cur # <<>>
  /\ regex_rules[idx].kind = "Regex"
  /\ Conclude([valid |-> TRUE, email |-> cur[1], rule |-> regex_rules[idx],
               looked |-> FALSE, host |-> <<>>, answer |-> LookupErr, instance |-> 0,
               result |-> Ok(RegexIsMatch(regex_rules[idx].regex, cur[1]))])
  /\ UNCHANGED <<inputs, bad_rules, commit_emails, regex_rules, stderr, remaining,
                 violations, RESOLVER, stdout, exitCode, pc, resolverNews, mxCalls>>

\* Rule::is_match on a Rule::MxRecord: RESOLVER is made at its first
\* dereference, the lookup answers anything, and `?` returns its error
MatchMxRecord ==
  /\ pc = "filter"
  /\ cur # <<>>
  /\ regex_rules[idx].kind = "MxRecord"
  /\ mxCalls' = mxCalls + 1
  /\ LET host == MxHost(cur[1])
         record == regex_rules[idx].record
     IN IF host.some
        THEN /\ RESOLVER' = "ready"
             /\ resolverNews' = IF RunsInit(RESOLVER) THEN resolverNews + 1 ELSE resolverNews
             /\ \E answer \in LookupResults :
                  Conclude([valid |-> TRUE, email |-> cur[1], rule |-> regex_rules[idx],
                            looked |-> TRUE, host |-> host.v, answer |-> answer,
                            instance |-> resolverNews',
                            result |-> IF answer.ok
                                       THEN Ok(\E v \in answer.exch : ExchangeIs(v, record))
                                       ELSE Err])
        ELSE /\ RESOLVER' = RESOLVER
             /\ resolverNews' = resolverNews
             /\ Conclude([valid |-> TRUE, email |-> cur[1], rule |-> regex_rules[idx],
                          looked |-> FALSE, host |-> <<>>, answer |-> LookupErr,
                          instance |-> 0, result |-> Ok(FALSE)])
  /\ UNCHANGED <<inputs, bad_rules, commit_emails, regex_rules, stderr, remaining,
                 violations, stdout, exitCode, pc>>

\* Rule::is_match on a Rule::MxRecord when Resolver::new returns an error:
\* the initializer unwraps it and panics, and the process exits with 101
ResolverPanic ==
  /\ pc = "filter"
  /\ cur # <<>>
  /\ regex_rules[idx].kind = "MxRecord"
  /\ MxHost(cur[1]).some
  /\ RunsInit(RESOLVER)
  /\ resolverNews' = resolverNews + 1
  /\ mxCalls' = mxCalls + 1
  /\ pc' = "panicked"
  /\ exitCode' = 101
  /\ UNCHANGED <<inputs, bad_rules, commit_emails, regex_rules, stderr, remaining, cur,
                 idx, kept, violations, RESOLVER, stdout, lastCall, nCalls, matched,
                 exhausted, erred>>

\* find_violations: collect, sort_unstable and return
SortAndReturn ==
  /\ pc = "filter"
  /\ cur = <<>>
  /\ remaining = {}
  /\ violations' = SortUnstable(kept)
  /\ pc' = "render"
  /\ UNCHANGED <<inputs, bad_rules, commit_emails, regex_rules, stderr, remaining, cur,
                 idx, kept, RESOLVER, stdout, exitCode, history>>

Line(text, n, items) == [text |-> text, n |-> n, items |-> items]

\* output_github: items are the bullets joined by %0A
OutputGithub(v) ==
  IF v = <<>> THEN <<Line("has_violations=false", 0, <<>>)>>
  ELSE <<Line("has_violations=true", 0, <<>>), Line("violations=", 0, v)>>

\* output_text
OutputText(v) ==
  IF v = <<>> THEN <<Line("All submitted email addresses meet the requirements", 0, <<>>)>>
  ELSE <<Line("violating email address(es) detected:", Len(v), <<>>)>>
         \o [i \in 1..Len(v) |-> Line("item", i, <<v[i]>>)]

\* run: the renderer, then Ok(violations); main returns Ok(())
Render ==
  /\ pc = "render"
  /\ stdout' = IF output = "github" THEN OutputGithub(violations) ELSE OutputText(violations)
  /\ pc' = "done"
  /\ exitCode' = 0
  /\ UNCHANGED <<inputs, bad_rules, commit_emails, regex_rules, stderr, remaining, cur,
                 idx, kept, violations, RESOLVER, history>>

Next ==
  \/ ReadRules
  \/ ReadEmails
  \/ Compile
  \/ NextEmail
  \/ MatchRegex
  \/ MatchMxRecord
  \/ ResolverPanic
  \/ SortAndReturn
  \/ Render

\* the runs over files of several lines
Spec == Init /\ [][Next]_vars

\* the runs over one rule line and one email line
SpecLine == InitLine /\ [][Next]_vars

(***************************************************************************)
(* Properties.  What they need beyond the state: the words of spec.md,     *)
(* written down without the operators of the model.                        *)
(***************************************************************************)
\* find_violations has returned
Returned == pc \in {"render", "done"}

\* compile_rules has returned
Compiled == pc \in {"filter", "render", "done", "panicked"}

HasAt(email) == \E i \in 1..Len(email) : email[i] = "@"

\* the domain of an email that holds an `@`: the text after the last one
DomainOf(email) ==
  LET i == CHOOSE k \in 1..Len(email) :
             email[k] = "@" /\ \A j \in (k + 1)..Len(email) : email[j] # "@"
  IN [j \in 1..(Len(email) - i) |-> email[i + j]]

FoldStr(str) == [i \in 1..Len(str) |-> Fold(str[i])]

\* the exchange is `host` once exactly one trailing dot, if it has one, is
\* removed
IsHostUpToOneDot(exchange, host) ==
  \/ exchange = host \o <<".">>
  \/ exchange = host /\ (host = <<>> \/ host[Len(host)] # ".")

\* the content of the line, whatever whitespace surrounds it, is a comment
IsCommentLine(line) ==
  \E i \in 1..Len(line) : line[i] = "#" /\ \A j \in 1..(i - 1) : line[j] = " "

IsBlankLine(line) == \A i \in 1..Len(line) : line[i] = " "

Ascending(v) == \A i, j \in 1..Len(v) : i < j => ~StrLess(v[j], v[i])
NoDuplicates(v) == \A i, j \in 1..Len(v) : i # j => v[i] # v[j]

\* C1: find_violations returns exactly the emails of E some rule's is_match
\* returned Ok(true) for: every email with such a rule is returned, among
\* them every email a Regex rule matches, and for every email left out all
\* rules were tried and none returned Ok(true).
C1_ExactlyTheMatched ==
  Returned =>
    /\ ToSet(violations) = matched
    /\ matched \subseteq commit_emails
    /\ commit_emails \ ToSet(violations) = exhausted
    /\ \A e \in commit_emails :
         (\E i \in 1..Len(regex_rules) :
            /\ regex_rules[i].kind = "Regex"
            /\ RegexIsMatch(regex_rules[i].regex, e))
         => e \in ToSet(violations)

\* a run over two rules where one email is returned and one is left out
C1_Witness ==
  /\ pc = "done"
  /\ Len(regex_rules) = 2
  /\ Cardinality(commit_emails) = 2
  /\ Len(violations) = 1

\* C2: the list find_violations and run return is sorted in ascending
\* string order and holds no email twice.
C2_SortedNoDuplicates ==
  Returned => Ascending(violations) /\ NoDuplicates(violations)

\* a run whose emails file repeats a line, and where the filter collected
\* two emails in descending order
C2_Witness ==
  /\ pc = "done"
  /\ Len(emailsFile.lines) > Cardinality(commit_emails)
  /\ Len(violations) = 2
  /\ kept # violations

\* C3: the rule *@d.c matches every email that ends in @d.c, compared
\* case-insensitively, and no email whose domain is not d.c.
C3_WildcardExactDomain ==
  (/\ lastCall.valid
   /\ rulesFile.lines = << <<"*", "@", "d", ".", "c">> >>) =>
    /\ EndsWith(FoldStr(lastCall.email), <<"@", "d", ".", "c">>)
         => lastCall.result = Ok(TRUE)
    /\ (HasAt(lastCall.email) /\ FoldStr(DomainOf(lastCall.email)) # <<"d", ".", "c">>)
         => lastCall.result # Ok(TRUE)

\* C4: for a rule line MX-RECORD,<host> and an email with a domain, is_match
\* looks up the text after the email's last `@` and returns Ok(true) if and
\* only if the lookup answers with an exchange that is <host> once exactly
\* one trailing dot is removed.
C4_MxRecordExactHost ==
  (/\ lastCall.valid
   /\ Len(rulesFile.lines) = 1
   /\ StartsWith(rulesFile.lines[1], MxPrefix)
   /\ HasAt(lastCall.email)) =>
    LET host == [i \in 1..(Len(rulesFile.lines[1]) - Len(MxPrefix)) |->
                   rulesFile.lines[1][Len(MxPrefix) + i]]
    IN /\ lastCall.looked
       /\ lastCall.host = DomainOf(lastCall.email)
       /\ (lastCall.result = Ok(TRUE)) <=>
            /\ lastCall.answer.ok
            /\ \E x \in lastCall.answer.exch : IsHostUpToOneDot(x, host)

\* MX-RECORD,m matched an email with two `@` on an answer of two exchanges,
\* one of them m.
C4_Witness ==
  /\ lastCall.valid
  /\ rulesFile.lines = <<MxPrefix \o <<"m">>>>
  /\ lastCall.email = <<"a", "@", "e", "@", "m">>
  /\ lastCall.answer = LookupOk({<<"x", ".", "m", ".">>, <<"m", ".">>})
  /\ lastCall.result = Ok(TRUE)

\* C5: a failed lookup counts as no match and nothing stops: the email of
\* an is_match call that returned Err is not collected by that call, and
\* when find_violations returns every email with a failed lookup either had
\* another rule return Ok(true) or had every rule tried, every email was
\* evaluated, and the list holds exactly the emails with an Ok(true).
C5_LookupFailureIsNoMatch ==
  /\ (lastCall.valid /\ ~lastCall.result.ok) => lastCall.email \notin ToSet(kept)
  /\ (Returned /\ erred # {}) =>
       /\ erred \subseteq matched \cup exhausted
       /\ matched \cup exhausted = commit_emails
       /\ ToSet(violations) = matched

\* a run of two emails where a lookup failed for an email another rule then
\* matched, and a lookup failed for an email no rule matched
C5_Witness ==
  /\ pc = "done"
  /\ Cardinality(commit_emails) = 2
  /\ erred \cap matched # {}
  /\ erred \cap exhausted # {}

\* C6: the process exits non-zero only when one of the two files cannot be
\* read; once both are read nothing makes it abort.
C6_OnlyUnreadableFilesAreFatal ==
  /\ pc # "panicked"
  /\ exitCode # 0 => (~rulesFile.readable \/ ~emailsFile.readable)

\* C7: comment lines and blank lines of the rules file, whatever whitespace
\* surrounds their content, produce no matcher: a file of such lines alone
\* compiles to no rule.
C7_CommentsAndBlanksGiveNoMatcher ==
  (/\ Compiled
   /\ \A i \in 1..Len(rulesFile.lines) :
        IsCommentLine(rulesFile.lines[i]) \/ IsBlankLine(rulesFile.lines[i])) =>
    regex_rules = <<>>

\* C8: on an email without `@` an MX-record rule's is_match returns
\* Ok(false), whatever a lookup would answer.
C8_NoAtNeverMatches ==
  (/\ lastCall.valid
   /\ lastCall.rule.kind = "MxRecord"
   /\ ~HasAt(lastCall.email)) =>
    lastCall.result = Ok(FALSE)

\* C9: the rule line MX-RECORD, with no host is skipped: no rule is
\* compiled from it and a diagnostic names it.
C9_MxRecordWithoutHostIsSkipped ==
  (Compiled /\ MxPrefix \in ToSet(rulesFile.lines)) =>
    /\ \A i \in 1..Len(regex_rules) :
         ~(regex_rules[i].kind = "MxRecord" /\ regex_rules[i].record = <<>>)
    /\ MxPrefix \in ToSet(stderr)

\* C10: Resolver::new is called at most once in a run, at the first is_match
\* call on an MX-record rule and not before, never when there is no such
\* call, and every lookup is served by the instance of that one call.
C10_ResolverOnceAtFirstMxCall ==
  /\ resolverNews <= 1
  /\ resolverNews = 0 <=> mxCalls = 0
  /\ lastCall.looked => lastCall.instance = 1

\* a second lookup, served by the resolver made at the first
C10_Witness ==
  /\ mxCalls = 2
  /\ resolverNews = 1
  /\ lastCall.looked
  /\ RESOLVER = "ready"

====
